---- MODULE Spec2Model ----
(***************************************************************************)
(* imagepreview: a list of image URLs is fetched, every body is decoded    *)
(* and the images are composited into one contact sheet (src/src/grid.rs). *)
(*                                                                         *)
(* Three specifications share the definitions below:                       *)
(*   SpecPlan  calculate_grid_dimensions on image counts                   *)
(*   SpecDims  the canvas size arithmetic of create_image_grid (u32)       *)
(*   Spec      process_base64_urls / download_images / create_image_grid   *)
(*             on small images, pixel by pixel                             *)
(***************************************************************************)
EXTENDS Integers, Sequences, FiniteSets, TLC

VARIABLES
    plan_in,        \* SpecPlan: the count handed to calculate_grid_dimensions
    plan_out,       \* SpecPlan: its result <<cols, rows>>, or NoDims
    entry,          \* the public function called: process_base64_urls or create_image_grid
    payload,        \* the base64_urls argument, one symbol per element
    overflow_checks,\* the build profile: TRUE when integer overflow panics (debug)
    pc,             \* where the call is
    urls,           \* process_base64_urls: the URLs parsed from the payload
    tasks,          \* download_images: one record per download task
    order,          \* the task indices in the order the tasks completed
    downloaded,     \* what download_images returned, or None
    image_bytes,    \* the argument of create_image_grid
    images,         \* create_image_grid: the decoded images
    grid,           \* create_image_grid: grid shape, largest tile, canvas size, or None
    canvas,         \* create_image_grid: grid_image, or None before it is allocated
    tiles,          \* per image overlaid so far, its offsets and the span written
    stages,         \* the stages entered so far, in order
    result          \* what the call returned, or None

planVars == <<plan_in, plan_out>>
callVars == <<entry, payload, overflow_checks>>
fetchVars == <<urls, tasks, order, downloaded>>
gridVars == <<images, grid, canvas, tiles>>
flowVars == <<pc, image_bytes, stages, result>>

vars == <<planVars, callVars, fetchVars, gridVars, flowVars>>

\* a result not yet there
None == [kind |-> "None"]
\* the planner has not answered yet
NoDims == <<>>

(***************************************************************************)
(* f32 arithmetic, as far as calculate_grid_dimensions uses it.  An f32    *)
(* value is kept as the exact rational <<num, den>> it denotes.            *)
(***************************************************************************)

\* significand bits of an f32 (IEEE 754 binary32), implied bit included
F32Precision == 24

RoundHalfEven(num, den) ==
    LET q == num \div den
        r == num % den
    IN  IF 2 * r > den \/ (2 * r = den /\ q % 2 = 1) THEN q + 1 ELSE q

\* least e >= 0 with num / (den * 2^e) < 2^24
RECURSIVE ExpUp(_, _, _)
ExpUp(num, den, e) ==
    IF num \div (den * 2^e) < 2^F32Precision THEN e ELSE ExpUp(num, den, e + 1)

\* least k >= 0 with num * 2^k / den >= 2^23
RECURSIVE ExpDown(_, _, _)
ExpDown(num, den, k) ==
    IF num * 2^k >= den * 2^(F32Precision - 1) THEN k ELSE ExpDown(num, den, k + 1)

\* the rational num/den with the common factors of two cancelled
RECURSIVE Reduce(_, _)
Reduce(num, den) ==
    IF num % 2 = 0 /\ den % 2 = 0 /\ den > 1
    THEN Reduce(num \div 2, den \div 2)
    ELSE <<num, den>>

\* the f32 nearest to the rational num/den >= 0 (round to nearest, ties to even)
F32Round(num, den) ==
    IF num = 0 THEN <<0, 1>>
    ELSE IF num >= den * 2^(F32Precision - 1)
    THEN LET e == ExpUp(num, den, 0)
         IN  <<RoundHalfEven(num, den * 2^e) * 2^e, 1>>
    ELSE LET k == ExpDown(num, den, 0)
         IN  Reduce(RoundHalfEven(num * 2^k, den), 2^k)

\* `n as f32`
F32FromInt(n) == F32Round(n, 1)

\* `a / b` on f32
F32Div(a, b) == F32Round(a[1] * b[2], a[2] * b[1])

\* `x.ceil() as u32` (the cast saturates at u32::MAX, beyond the range modelled)
F32CeilToU32(x) == (x[1] + x[2] - 1) \div x[2]

calculate_grid_dimensions(count) ==
    CASE count = 0 -> <<0, 0>>
      [] count = 1 -> <<1, 1>>
      [] count \in 2..4 -> <<2, 2>>
      [] OTHER ->
            LET cols == 3
                rows == F32CeilToU32(F32Div(F32FromInt(count), F32FromInt(cols)))
            IN  <<cols, rows>>

(***************************************************************************)
(* u32 arithmetic.  Image dimensions and grid counts are plain integers    *)
(* (below 2^31, the model checker's range).  A product or a sum of them is *)
(* kept as <<hi, lo>>, lo a 16-bit limb and hi everything above it: a u32  *)
(* has hi < 2^16.                                                          *)
(***************************************************************************)

Limb == 2^16

\* the exact product a * b, for a < 2^15
BigMul(a, b) ==
    LET lo_full == a * (b % Limb)
    IN  <<a * (b \div Limb) + (lo_full \div Limb), lo_full % Limb>>

\* the exact sum u + n
BigAdd(u, n) ==
    LET lo_full == u[2] + (n % Limb)
    IN  <<u[1] + (n \div Limb) + (lo_full \div Limb), lo_full % Limb>>

BigLeq(u, v) == u[1] < v[1] \/ (u[1] = v[1] /\ u[2] <= v[2])
BigMin(u, v) == IF BigLeq(u, v) THEN u ELSE v

U32FromInt(n) == <<n \div Limb, n % Limb>>
U32ToInt(u) == u[1] * Limb + u[2]

\* `a * b` on u32: the wrapped product and whether it overflowed
MulU32(a, b) ==
    LET exact == BigMul(a, b)
    IN  [overflow |-> exact[1] >= Limb,
         value    |-> <<exact[1] % Limb, exact[2]>>]

\* `images.iter().map(|img| img.width()).max().unwrap_or(0)`
RECURSIVE MaxOf(_)
MaxOf(s) ==
    IF s = <<>> THEN 0
    ELSE LET m == MaxOf(Tail(s)) IN IF Head(s) >= m THEN Head(s) ELSE m

MaxWidth(imgs) == MaxOf([i \in DOMAIN imgs |-> imgs[i].w])
MaxHeight(imgs) == MaxOf([i \in DOMAIN imgs |-> imgs[i].h])

\* create_image_grid, from the planner call to the canvas size: the size
\* handed to ImageBuffer::from_pixel, or the overflow panic of a build with
\* overflow checks
GridSize(imgs, checks) ==
    LET dims == calculate_grid_dimensions(Len(imgs))
        cols == dims[1]
        rows == dims[2]
        max_width == MaxWidth(imgs)
        max_height == MaxHeight(imgs)
        grid_width == MulU32(cols, max_width)
        grid_height == MulU32(rows, max_height)
    IN  IF checks /\ (grid_width.overflow \/ grid_height.overflow)
        THEN [kind |-> "Panic"]
        ELSE [kind |-> "Ok", cols |-> cols, rows |-> rows,
              max_width |-> max_width, max_height |-> max_height,
              width |-> grid_width.value, height |-> grid_height.value]

\* the loop body of create_image_grid up to the overlay call, for the image
\* at 0-based index idx: the offsets handed to imageops::overlay
TileOffset(idx, g, checks) ==
    LET col == idx % g.cols
        row == idx \div g.cols
        x_offset == MulU32(col, g.max_width)
        y_offset == MulU32(row, g.max_height)
    IN  IF checks /\ (x_offset.overflow \/ y_offset.overflow)
        THEN [kind |-> "Panic"]
        ELSE [kind |-> "Ok", x |-> x_offset.value, y |-> y_offset.value]

\* imageops::overlay clips the top image to the bottom one: the span of
\* bottom coordinates it writes along one axis, [from, to)
OverlaySpan(offset, top_len, bottom_len) ==
    IF BigLeq(bottom_len, offset) THEN [from |-> offset, to |-> offset]
    ELSE [from |-> offset, to |-> BigMin(BigAdd(offset, top_len), bottom_len)]

(***************************************************************************)
(* The source-list payload: base64 (three engines), UTF-8, split and trim. *)
(* Text is a sequence of one-character strings (the payload) or of code    *)
(* points (the decoded String).                                            *)
(***************************************************************************)

Upper == <<"A","B","C","D","E","F","G","H","I","J","K","L","M",
           "N","O","P","Q","R","S","T","U","V","W","X","Y","Z">>
Lower == <<"a","b","c","d","e","f","g","h","i","j","k","l","m",
           "n","o","p","q","r","s","t","u","v","w","x","y","z">>
Digits == <<"0","1","2","3","4","5","6","7","8","9">>

\* alphabet::STANDARD and alphabet::URL_SAFE
StandardAlphabet == Upper \o Lower \o Digits \o <<"+", "/">>
UrlSafeAlphabet == Upper \o Lower \o Digits \o <<"-", "_">>

\* the 6-bit value of a symbol, or -1 when it is not of the alphabet
Morsel(alphabet, c) ==
    IF \E i \in DOMAIN alphabet : alphabet[i] = c
    THEN (CHOOSE i \in DOMAIN alphabet : alphabet[i] = c) - 1
    ELSE -1

\* the number of "=" that end the input
RECURSIVE TrailingPads(_)
TrailingPads(input) ==
    IF input # <<>> /\ input[Len(input)] = "="
    THEN 1 + TrailingPads(SubSeq(input, 1, Len(input) - 1))
    ELSE 0

\* the bytes of a run of symbols: three of each full quad, and one or two of
\* a last quad of two or three symbols
RECURSIVE QuadBytes(_, _)
QuadBytes(alphabet, data) ==
    LET m(i) == Morsel(alphabet, data[i])
    IN  IF Len(data) >= 4
        THEN LET v == ((m(1) * 64 + m(2)) * 64 + m(3)) * 64 + m(4)
             IN  <<v \div 65536, (v \div 256) % 256, v % 256>>
                 \o QuadBytes(alphabet, SubSeq(data, 5, Len(data)))
        ELSE IF Len(data) = 3
        THEN LET v == (m(1) * 64 + m(2)) * 64 + m(3)
             IN  <<v \div 1024, (v \div 4) % 256>>
        ELSE IF Len(data) = 2
        THEN <<(m(1) * 64 + m(2)) \div 16>>
        ELSE <<>>

\* Engine::decode of a GeneralPurpose engine.  canonical: padding is required
\* (PAD, DecodePaddingMode::RequireCanonical); otherwise none is allowed
\* (NO_PAD, RequireNone).  Bits of the last symbol that belong to no byte must
\* be zero.
Base64Decode(alphabet, canonical, input) ==
    LET n == Len(input)
        p == TrailingPads(input)
        data == SubSeq(input, 1, n - p)
        d == Len(data)
        last == Morsel(alphabet, data[d])
        valid ==
            /\ n % 4 # 1
            /\ \A i \in 1..d : Morsel(alphabet, data[i]) >= 0
            /\ \A i \in (d + 1)..n : (i - 1) % 4 >= 2
            /\ IF canonical THEN n % 4 = 0 ELSE p = 0
            /\ d % 4 = 2 => last % 16 = 0
            /\ d % 4 = 3 => last % 4 = 0
    IN  IF valid THEN [ok |-> TRUE, bytes |-> QuadBytes(alphabet, data)]
        ELSE [ok |-> FALSE, bytes |-> <<>>]

\* STANDARD.decode(..).or_else(URL_SAFE_NO_PAD).or_else(URL_SAFE)
DecodePayload(input) ==
    LET standard == Base64Decode(StandardAlphabet, TRUE, input)
        url_safe_no_pad == Base64Decode(UrlSafeAlphabet, FALSE, input)
        url_safe == Base64Decode(UrlSafeAlphabet, TRUE, input)
    IN  IF standard.ok THEN standard
        ELSE IF url_safe_no_pad.ok THEN url_safe_no_pad
        ELSE url_safe

\* String::from_utf8: the code points of a well-formed UTF-8 byte sequence
RECURSIVE Utf8Decode(_)
Utf8Decode(b) ==
    LET cont(i) == Len(b) >= i /\ b[i] \in 128..191
        rest(k) == Utf8Decode(SubSeq(b, k + 1, Len(b)))
        bad == [ok |-> FALSE, chars |-> <<>>]
        more(k, cp) ==
            LET r == rest(k)
            IN  IF r.ok THEN [ok |-> TRUE, chars |-> <<cp>> \o r.chars] ELSE bad
    IN  IF b = <<>> THEN [ok |-> TRUE, chars |-> <<>>]
        ELSE IF b[1] < 128 THEN more(1, b[1])
        ELSE IF b[1] \in 194..223 /\ cont(2)
        THEN more(2, (b[1] - 192) * 64 + (b[2] - 128))
        ELSE IF /\ b[1] \in 224..239 /\ cont(2) /\ cont(3)
                /\ b[1] = 224 => b[2] >= 160
                /\ b[1] = 237 => b[2] <= 159
        THEN more(3, ((b[1] - 224) * 64 + (b[2] - 128)) * 64 + (b[3] - 128))
        ELSE IF /\ b[1] \in 240..244 /\ cont(2) /\ cont(3) /\ cont(4)
                /\ b[1] = 240 => b[2] >= 144
                /\ b[1] = 244 => b[2] <= 143
        THEN more(4, (((b[1] - 240) * 64 + (b[2] - 128)) * 64 + (b[3] - 128)) * 64
                     + (b[4] - 128))
        ELSE bad

Comma == 44

\* char::is_whitespace (the Unicode White_Space property)
IsWhitespace(cp) ==
    \/ cp \in 9..13
    \/ cp \in {32, 133, 160, 5760, 8232, 8233, 8239, 8287, 12288}
    \/ cp \in 8192..8202

\* str::split(',')
RECURSIVE SplitComma(_)
SplitComma(str) ==
    IF \E i \in DOMAIN str : str[i] = Comma
    THEN LET i == CHOOSE j \in DOMAIN str :
                      str[j] = Comma /\ \A k \in 1..(j - 1) : str[k] # Comma
         IN  <<SubSeq(str, 1, i - 1)>> \o SplitComma(SubSeq(str, i + 1, Len(str)))
    ELSE <<str>>

\* str::trim
RECURSIVE Trim(_)
Trim(str) ==
    IF str = <<>> THEN str
    ELSE IF IsWhitespace(str[1]) THEN Trim(Tail(str))
    ELSE IF IsWhitespace(str[Len(str)]) THEN Trim(SubSeq(str, 1, Len(str) - 1))
    ELSE str

\* .filter(|s| !s.is_empty())
RECURSIVE NonEmpty(_)
NonEmpty(strs) ==
    IF strs = <<>> THEN <<>>
    ELSE IF Head(strs) = <<>> THEN NonEmpty(Tail(strs))
    ELSE <<Head(strs)>> \o NonEmpty(Tail(strs))

\* decoded_str.split(',').map(trim).filter(non-empty).collect()
SplitUrls(str) ==
    LET pieces == SplitComma(str)
    IN  NonEmpty([i \in DOMAIN pieces |-> Trim(pieces[i])])

(***************************************************************************)
(* SpecPlan: calculate_grid_dimensions applied to a count.                 *)
(***************************************************************************)

\* counts 0 .. MaxCount are tried, and a window above 2^24
MaxCount == 60
\* the window of large counts starts at 2^24 and holds this many counts
BigWindow == 48

CountInputs == (0..MaxCount) \cup ((2^F32Precision)..(2^F32Precision + BigWindow))

PlanIdle == plan_in = 0 /\ plan_out = NoDims
GridIdle == images = <<>> /\ grid = None /\ canvas = None /\ tiles = <<>>
FetchIdle == urls = <<>> /\ tasks = <<>> /\ order = <<>> /\ downloaded = None
FlowIdle == pc = "idle" /\ image_bytes = <<>> /\ stages = <<>> /\ result = None
NoCall == entry = "none" /\ payload = <<>>

InitPlan ==
    /\ plan_in \in CountInputs
    /\ plan_out = NoDims
    /\ NoCall /\ overflow_checks = FALSE
    /\ FetchIdle /\ GridIdle /\ FlowIdle

Plan ==
    /\ plan_out = NoDims
    /\ plan_out' = calculate_grid_dimensions(plan_in)
    /\ UNCHANGED <<plan_in, callVars, fetchVars, gridVars, flowVars>>

NextPlan == Plan

SpecPlan == InitPlan /\ [][NextPlan]_vars

(***************************************************************************)
(* SpecDims: the size and offset arithmetic of create_image_grid for       *)
(* images of any size: 1x1 images and one image drawn from DimInputs.  The  *)
(* canvas pixels are not materialised here.                                *)
(***************************************************************************)

\* at most this many images in one call of SpecDims
MaxTiles == 10

\* a length whose triple exceeds u32::MAX
BigLength == 2^30 + 2^29

DimInputs == { [w |-> 1, h |-> 1], [w |-> 2, h |-> 3],
               [w |-> BigLength, h |-> 1], [w |-> 1, h |-> BigLength] }

\* n images, all 1x1 but the one at position j
OneAmong(n, j, d) == [i \in 1..n |-> IF i = j THEN d ELSE [w |-> 1, h |-> 1]]

InitDims ==
    /\ PlanIdle /\ NoCall /\ FetchIdle /\ FlowIdle
    /\ overflow_checks \in BOOLEAN
    /\ \E n \in 1..MaxTiles : \E j \in 1..n : \E d \in DimInputs :
            images = OneAmong(n, j, d)
    /\ grid = None
    /\ canvas = None
    /\ tiles = <<>>

\* lines 74-86: the grid shape, the largest tile, the canvas size
ComputeDims ==
    /\ grid = None
    /\ grid' = GridSize(images, overflow_checks)
    /\ UNCHANGED <<planVars, callVars, fetchVars, flowVars, images, canvas, tiles>>

\* lines 88-96, one iteration: where the next image is overlaid and the
\* canvas rectangle the overlay writes
PlaceTile ==
    /\ grid.kind = "Ok"
    /\ Len(tiles) < Len(images)
    /\ IF tiles = <<>> THEN TRUE ELSE tiles[Len(tiles)].kind = "Ok"
    /\ LET idx == Len(tiles)
           img == images[idx + 1]
           at == TileOffset(idx, grid, overflow_checks)
       IN  tiles' = Append(tiles,
                IF at.kind = "Panic" THEN at
                ELSE [kind |-> "Ok", x |-> at.x, y |-> at.y,
                      xs |-> OverlaySpan(at.x, img.w, grid.width),
                      ys |-> OverlaySpan(at.y, img.h, grid.height)])
    /\ UNCHANGED <<planVars, callVars, fetchVars, flowVars, images, grid, canvas>>

NextDims == ComputeDims \/ PlaceTile

SpecDims == InitDims /\ [][NextDims]_vars

\* the planner's policy as the specification tables it
PolicyCols(n) == IF n = 0 THEN 0 ELSE IF n = 1 THEN 1 ELSE IF n <= 4 THEN 2 ELSE 3
PolicyRows(n) == IF n = 0 THEN 0 ELSE IF n = 1 THEN 1 ELSE IF n <= 4 THEN 2 ELSE (n + 2) \div 3

\* C2: for every non-empty sequence of decoded images the canvas is
\* plan(n).columns * max width wide and plan(n).rows * max height high, and
\* the compositing step raises no error.
C2_CanvasSize ==
    grid # None =>
        /\ grid.kind = "Ok"
        /\ grid.width = BigMul(PolicyCols(Len(images)), MaxWidth(images))
        /\ grid.height = BigMul(PolicyRows(Len(images)), MaxHeight(images))

\* C3: image i (0-based) is overlaid with its top-left corner at
\* ((i mod columns) * max_width, (i div columns) * max_height).
C3_TileOffsets ==
    \A k \in DOMAIN tiles :
        /\ tiles[k].kind = "Ok"
        /\ tiles[k].x = BigMul((k - 1) % PolicyCols(Len(images)), MaxWidth(images))
        /\ tiles[k].y = BigMul((k - 1) \div PolicyCols(Len(images)), MaxHeight(images))

\* the span is empty or lies within [from, to)
SpanWithin(span, from, to) ==
    \/ BigLeq(span.to, span.from)
    \/ BigLeq(from, span.from) /\ BigLeq(span.to, to)

\* C8: the pixels an overlay writes lie in the native-size rectangle of the
\* image at its own cell: every other canvas pixel stays white, and
\* overlaying image i changes no pixel outside its own cell.
C8_WritesInOwnCell ==
    \A k \in DOMAIN tiles :
        tiles[k].kind = "Ok" =>
            LET cols == PolicyCols(Len(images))
                left == BigMul((k - 1) % cols, MaxWidth(images))
                top == BigMul((k - 1) \div cols, MaxHeight(images))
            IN  \/ BigLeq(tiles[k].xs.to, tiles[k].xs.from)
                \/ BigLeq(tiles[k].ys.to, tiles[k].ys.from)
                \/ /\ SpanWithin(tiles[k].xs, left, BigAdd(left, images[k].w))
                   /\ SpanWithin(tiles[k].ys, top, BigAdd(top, images[k].h))

\* ceil(n / 3) on the integers
CeilDiv3(n) == (n + 2) \div 3

\* C1: for every count n the planner returns (0,0) for 0, (1,1) for 1,
\* (2,2) for 2..4 and (3, ceil(n/3)) for n >= 5.
C1_PlanPolicy ==
    plan_out # NoDims =>
        plan_out = (CASE plan_in = 0 -> <<0, 0>>
                      [] plan_in = 1 -> <<1, 1>>
                      [] plan_in \in 2..4 -> <<2, 2>>
                      [] OTHER -> <<3, CeilDiv3(plan_in)>>)

(***************************************************************************)
(* Byte buffers, images and pixels.  A byte buffer is kept as what the     *)
(* codec finds in it: the colour type, the size and the samples, or junk.  *)
(* A pixel is <<r, g, b, a>>; its alpha is 0 or 255 in every input used.   *)
(***************************************************************************)

Coords(w, h) == (0..(w - 1)) \X (0..(h - 1))

\* a 1x1 RGB image
BufRgb == [fmt |-> "Rgb8", w |-> 1, h |-> 1,
           data |-> [q \in Coords(1, 1) |-> <<10, 20, 30>>]]
\* a 2x1 grayscale image
BufGray == [fmt |-> "L8", w |-> 2, h |-> 1,
            data |-> [q \in Coords(2, 1) |-> <<100 + q[1]>>]]
\* a 1x2 RGBA image, opaque above a transparent pixel
BufRgba == [fmt |-> "Rgba8", w |-> 1, h |-> 2,
            data |-> [q \in Coords(1, 2) |->
                        <<40, 50 + q[2], 60, IF q[2] = 0 THEN 255 ELSE 0>>]]
\* bytes that are no image
BufJunk == [fmt |-> "junk", w |-> 0, h |-> 0, data |-> [q \in {} |-> <<>>]]

Buffers == {BufRgb, BufGray, BufRgba, BufJunk}

\* DynamicImage::to_rgba8 on one pixel
ToRgba8(fmt, sample) ==
    CASE fmt = "L8" -> <<sample[1], sample[1], sample[1], 255>>
      [] fmt = "Rgb8" -> <<sample[1], sample[2], sample[3], 255>>
      [] fmt = "Rgba8" -> sample

\* image::load_from_memory(bytes).map(|img| img.to_rgba8())
DecodeImage(bytes) ==
    IF bytes.fmt = "junk" THEN [ok |-> FALSE]
    ELSE [ok |-> TRUE,
          image |-> [w |-> bytes.w, h |-> bytes.h,
                     px |-> [q \in Coords(bytes.w, bytes.h) |->
                                ToRgba8(bytes.fmt, bytes.data[q])]]]

White == <<255, 255, 255, 255>>

\* ImageBuffer::from_pixel(width, height, pixel)
FromPixel(width, height, pixel) ==
    [kind |-> "Image", w |-> width, h |-> height,
     px |-> [q \in Coords(width, height) |-> pixel]]

\* Pixel::blend for a top pixel that is transparent or opaque
Blend(bottom_px, top_px) == IF top_px[4] = 0 THEN bottom_px ELSE top_px

\* imageops::overlay(bottom, top, x, y), x and y within the model's integers
Overlay(bottom, top, x, y) ==
    [bottom EXCEPT !.px =
        [q \in DOMAIN bottom.px |->
            IF q[1] - x \in 0..(top.w - 1) /\ q[2] - y \in 0..(top.h - 1)
            THEN Blend(bottom.px[q], top.px[<<q[1] - x, q[2] - y>>])
            ELSE bottom.px[q]]]

(***************************************************************************)
(* Results and errors.                                                     *)
(***************************************************************************)

\* a GridError: its variant, the source it is about (0: none) and the
\* diagnostic it wraps
Err(type, src, detail) ==
    [kind |-> "Err", type |-> type, src |-> src, detail |-> detail]

EmptyInput == Err("EmptyInput", 0, "")

\* a panic unwinds the call: nothing is returned
Panic == [kind |-> "Panic"]

(***************************************************************************)
(* Spec: one call of process_base64_urls or of create_image_grid.          *)
(***************************************************************************)

\* at most this many URLs in a payload
MaxUrls == 3
\* at most this many buffers handed to create_image_grid directly
MaxImages == 5

SeqsUpTo(S, n) == UNION { [1..k -> S] : k \in 0..n }

\* the payloads tried
Payloads == {
    <<>>,                                                       \* ""
    <<"Y">>,                                                    \* no base64
    <<"Y","R","=","=">>,                                        \* bits after the last byte
    <<"/","w","=","=">>,                                        \* the byte 0xFF
    <<"L","A","=","=">>,                                        \* ","
    <<"I","C","w","g">>,                                        \* " , "
    <<"Y","Q","=","=">>,                                        \* "a"
    <<"Y","Q">>,                                                \* "a", unpadded
    <<"Y","S","x","i">>,                                        \* "a,b"
    <<"Y","S","w","_","Y","g","=","=">>,                        \* "a,?b", URL-safe
    <<"I","G","E","g","L","C","B","i","I","C","w","s","I","G","M","g">>, \* " a , b ,, c "
    <<"Y","S","x","i","L","G","M","s","Z","A","=","=">>,        \* "a,b,c,d"
    <<"Y","S","x","i","L","G","M","s","Z","C","x","l">> }       \* "a,b,c,d,e"

\* the URLs a payload holds (none when it does not decode)
UrlsOf(input) ==
    LET decoded == DecodePayload(input)
        str == Utf8Decode(decoded.bytes)
    IN  IF decoded.ok /\ str.ok THEN SplitUrls(str.chars) ELSE <<>>

\* what a server may answer
Statuses == {200, 404}
\* the bodies a server may send
Bodies == {BufGray, BufJunk}

InitCommon ==
    /\ PlanIdle /\ FetchIdle /\ GridIdle
    /\ overflow_checks \in BOOLEAN
    /\ stages = <<>>
    /\ result = None

Init ==
    /\ InitCommon
    /\ \/ /\ entry = "process_base64_urls"
          /\ payload \in { p \in Payloads : Len(UrlsOf(p)) <= MaxUrls }
          /\ image_bytes = <<>>
          /\ pc = "process"
       \/ /\ entry = "create_image_grid"
          /\ payload = <<>>
          /\ image_bytes \in SeqsUpTo(Buffers, MaxImages)
          /\ pc = "grid"

\* process_base64_urls, lines 154-164: the payload is decoded and split
ParsePayload ==
    /\ pc = "process"
    /\ stages' = Append(stages, "payload")
    /\ LET decoded_bytes == DecodePayload(payload)
           decoded_str == Utf8Decode(decoded_bytes.bytes)
       IN  IF ~decoded_bytes.ok
           THEN /\ result' = Err("Base64DecodeError", 0, "")
                /\ pc' = "done"
                /\ urls' = urls
           ELSE IF ~decoded_str.ok
           THEN /\ result' = Err("Utf8Error", 0, "")
                /\ pc' = "done"
                /\ urls' = urls
           ELSE /\ urls' = SplitUrls(decoded_str.chars)
                /\ pc' = "download"
                /\ result' = result
    /\ UNCHANGED <<planVars, callVars, gridVars, tasks, order, downloaded, image_bytes>>

NewTask(url) == [url |-> url, st |-> "created", status |-> 0, body |-> BufJunk, detail |-> ""]

\* download_images without the empty check of lines 126-128
DownloadEnter_NoEmptyCheck ==
    /\ pc = "download"
    /\ stages' = Append(stages, "download_images")
    /\ tasks' = [i \in DOMAIN urls |-> NewTask(urls[i])]
    /\ pc' = IF urls = <<>> THEN "join" ELSE "first_poll"
    /\ UNCHANGED <<planVars, callVars, gridVars, urls, order, downloaded, image_bytes, result>>

\* download_images, lines 126-141: the empty check, then one future per URL
\* (none of them polled yet)
DownloadEnter ==
    /\ pc = "download"
    /\ stages' = Append(stages, "download_images")
    /\ IF urls = <<>>
       THEN /\ downloaded' = EmptyInput
            /\ pc' = "downloaded"
            /\ tasks' = tasks
       ELSE /\ tasks' = [i \in DOMAIN urls |-> NewTask(urls[i])]
            /\ pc' = "first_poll"
            /\ downloaded' = downloaded
    /\ UNCHANGED <<planVars, callVars, gridVars, urls, order, image_bytes, result>>

\* the next future that join_all has not polled yet
NextCreated ==
    CHOOSE j \in DOMAIN tasks :
        tasks[j].st = "created" /\ \A k \in 1..(j - 1) : tasks[k].st # "created"

\* join_all polled for the first time polls every future once, in order:
\* each runs to its `send().await` (line 136), and the request is under way
StartFetch ==
    /\ pc = "first_poll"
    /\ LET i == NextCreated
       IN  /\ tasks' = [tasks EXCEPT ![i].st = "sending"]
           /\ pc' = IF i = Len(tasks) THEN "join" ELSE "first_poll"
    /\ UNCHANGED <<planVars, callVars, gridVars, urls, order, downloaded,
                   image_bytes, stages, result>>

\* the same first poll for a URL the client rejects (no URL, or a scheme it
\* does not speak): `send()` is ready at once with an error and no request
\* goes out
StartFetchRejected ==
    /\ pc = "first_poll"
    /\ LET i == NextCreated
       IN  /\ tasks' = [tasks EXCEPT ![i].st = "failed", ![i].detail = "builder"]
           /\ order' = Append(order, i)
           /\ pc' = IF i = Len(tasks) THEN "join" ELSE "first_poll"
    /\ UNCHANGED <<planVars, callVars, gridVars, urls, downloaded,
                   image_bytes, stages, result>>

\* line 136: `send().await?` ends with a transport error
SendFails(i) ==
    /\ pc = "join"
    /\ tasks[i].st = "sending"
    /\ tasks' = [tasks EXCEPT ![i].st = "failed", ![i].detail = "send"]
    /\ order' = Append(order, i)
    /\ UNCHANGED <<planVars, callVars, gridVars, urls, downloaded, flowVars>>

\* line 136: `send().await?` yields a response, whatever its status; the
\* task goes on to `response.bytes().await` (line 137)
SendResponds(i, status) ==
    /\ pc = "join"
    /\ tasks[i].st = "sending"
    /\ tasks' = [tasks EXCEPT ![i].st = "reading", ![i].status = status]
    /\ UNCHANGED <<planVars, callVars, gridVars, urls, order, downloaded, flowVars>>

\* line 137: reading the body ends with a transport error
BytesFail(i) ==
    /\ pc = "join"
    /\ tasks[i].st = "reading"
    /\ tasks' = [tasks EXCEPT ![i].st = "failed", ![i].detail = "bytes"]
    /\ order' = Append(order, i)
    /\ UNCHANGED <<planVars, callVars, gridVars, urls, downloaded, flowVars>>

\* lines 137-138: the body has arrived and the task ends with Ok(bytes)
BytesArrive(i, body) ==
    /\ pc = "join"
    /\ tasks[i].st = "reading"
    /\ tasks' = [tasks EXCEPT ![i].st = "ready", ![i].body = body]
    /\ order' = Append(order, i)
    /\ UNCHANGED <<planVars, callVars, gridVars, urls, downloaded, flowVars>>

\* the output of a finished task: Ok(bytes) or Err(reqwest::Error)
TaskOutput(t, i) ==
    IF t.st = "ready" THEN [kind |-> "Ok", bytes |-> t.body]
    ELSE Err("DownloadError", i, t.detail)

\* a collect that keeps the last error instead of the first
CollectResults_LastError(results) ==
    IF \E i \in DOMAIN results : results[i].kind = "Err"
    THEN results[CHOOSE i \in DOMAIN results :
                    /\ results[i].kind = "Err"
                    /\ \A k \in (i + 1)..Len(results) : results[k].kind # "Err"]
    ELSE [kind |-> "Ok", bufs |-> [i \in DOMAIN results |-> results[i].bytes]]

\* lines 145-148: `.map(|r| r.map_err(GridError::from)).collect()` into a
\* Result: the first Err in iteration order, or every Ok value
CollectResults(results) ==
    IF \E i \in DOMAIN results : results[i].kind = "Err"
    THEN results[CHOOSE i \in DOMAIN results :
                    /\ results[i].kind = "Err"
                    /\ \A k \in 1..(i - 1) : results[k].kind # "Err"]
    ELSE [kind |-> "Ok", bufs |-> [i \in DOMAIN results |-> results[i].bytes]]

\* a join that yields the outputs in the order of completion
JoinAllReturns_InCompletionOrder ==
    /\ pc = "join"
    /\ \A i \in DOMAIN tasks : tasks[i].st \in {"ready", "failed"}
    /\ downloaded' = CollectResults([k \in DOMAIN order |->
                                        TaskOutput(tasks[order[k]], order[k])])
    /\ pc' = "downloaded"
    /\ UNCHANGED <<planVars, callVars, gridVars, urls, tasks, order,
                   image_bytes, stages, result>>

\* a join that resolves at the first failure (try_join_all)
JoinAllReturns_OnFirstFailure ==
    /\ pc = "join"
    /\ \/ \A i \in DOMAIN tasks : tasks[i].st \in {"ready", "failed"}
       \/ \E i \in DOMAIN tasks : tasks[i].st = "failed"
    /\ downloaded' =
          IF \E i \in DOMAIN tasks : tasks[i].st = "failed"
          THEN LET i == CHOOSE j \in DOMAIN tasks : tasks[j].st = "failed"
               IN  TaskOutput(tasks[i], i)
          ELSE CollectResults([i \in DOMAIN tasks |-> TaskOutput(tasks[i], i)])
    /\ pc' = "downloaded"
    /\ UNCHANGED <<planVars, callVars, gridVars, urls, tasks, order,
                   image_bytes, stages, result>>

\* lines 143-150: join_all resolves once every future has finished, with the
\* outputs in the order of the futures; download_images returns
JoinAllReturns ==
    /\ pc = "join"
    /\ \A i \in DOMAIN tasks : tasks[i].st \in {"ready", "failed"}
    /\ downloaded' = CollectResults([i \in DOMAIN tasks |-> TaskOutput(tasks[i], i)])
    /\ pc' = "downloaded"
    /\ UNCHANGED <<planVars, callVars, gridVars, urls, tasks, order,
                   image_bytes, stages, result>>

\* a caller that goes on with the bodies that did arrive
AfterDownload_BestEffort ==
    /\ pc = "downloaded"
    /\ image_bytes' =
          IF downloaded.kind = "Err"
          THEN LET ready == { i \in DOMAIN tasks : tasks[i].st = "ready" }
                   pick == [k \in 1..Cardinality(ready) |->
                               CHOOSE i \in ready :
                                   Cardinality({ j \in ready : j < i }) = k - 1]
               IN  [k \in DOMAIN pick |-> tasks[pick[k]].body]
          ELSE downloaded.bufs
    /\ pc' = "grid"
    /\ UNCHANGED <<planVars, callVars, gridVars, fetchVars, stages, result>>

\* process_base64_urls, lines 166-170: `?` on the download, then the call of
\* create_image_grid
AfterDownload ==
    /\ pc = "downloaded"
    /\ IF downloaded.kind = "Err"
       THEN /\ result' = downloaded
            /\ pc' = "done"
            /\ image_bytes' = image_bytes
       ELSE /\ image_bytes' = downloaded.bufs
            /\ pc' = "grid"
            /\ result' = result
    /\ UNCHANGED <<planVars, callVars, gridVars, fetchVars, stages>>

\* create_image_grid, lines 59-61
GridEnter ==
    /\ pc = "grid"
    /\ IF image_bytes = <<>>
       THEN result' = EmptyInput /\ pc' = "done"
       ELSE result' = result /\ pc' = "decode"
    /\ UNCHANGED <<planVars, callVars, gridVars, fetchVars, image_bytes, stages>>

\* lines 63-72: every buffer is decoded (in parallel); with several bad
\* buffers the collect keeps the error of one of them
DecodeImages ==
    /\ pc = "decode"
    /\ stages' = Append(stages, "decode")
    /\ LET decoded == [i \in DOMAIN image_bytes |-> DecodeImage(image_bytes[i])]
           bad == { i \in DOMAIN decoded : ~decoded[i].ok }
       IN  IF bad # {}
           THEN /\ \E i \in bad : result' = Err("ImageDecodeError", i, "")
                /\ pc' = "done"
                /\ images' = images
           ELSE /\ images' = [i \in DOMAIN decoded |-> decoded[i].image]
                /\ pc' = "alloc"
                /\ result' = result
    /\ UNCHANGED <<planVars, callVars, fetchVars, grid, canvas, tiles, image_bytes>>

\* lines 74-86: the grid shape, the largest tile and the white canvas
AllocateCanvas ==
    /\ pc = "alloc"
    /\ LET size == GridSize(images, overflow_checks)
       IN  IF size.kind = "Panic"
           THEN /\ result' = Panic
                /\ pc' = "done"
                /\ UNCHANGED <<grid, canvas, stages>>
           ELSE /\ grid' = size
                /\ canvas' = FromPixel(U32ToInt(size.width), U32ToInt(size.height), White)
                /\ stages' = Append(stages, "composite")
                /\ pc' = "overlay"
                /\ result' = result
    /\ UNCHANGED <<planVars, callVars, fetchVars, images, tiles, image_bytes>>

\* lines 88-96, one iteration: the next image is overlaid at its cell
OverlayNext ==
    /\ pc = "overlay"
    /\ Len(tiles) < Len(images)
    /\ LET idx == Len(tiles)
           img == images[idx + 1]
           at == TileOffset(idx, grid, overflow_checks)
       IN  IF at.kind = "Panic"
           THEN /\ result' = Panic
                /\ pc' = "done"
                /\ UNCHANGED <<canvas, tiles>>
           ELSE /\ canvas' = Overlay(canvas, img, U32ToInt(at.x), U32ToInt(at.y))
                /\ tiles' = Append(tiles,
                        [kind |-> "Ok", x |-> at.x, y |-> at.y,
                         xs |-> OverlaySpan(at.x, img.w, grid.width),
                         ys |-> OverlaySpan(at.y, img.h, grid.height)])
                /\ UNCHANGED <<pc, result>>
    /\ UNCHANGED <<planVars, callVars, fetchVars, images, grid, image_bytes, stages>>

\* line 98: Ok(grid_image)
ReturnGrid ==
    /\ pc = "overlay"
    /\ Len(tiles) = Len(images)
    /\ result' = [kind |-> "Ok", image |-> canvas]
    /\ pc' = "done"
    /\ UNCHANGED <<planVars, callVars, fetchVars, gridVars, image_bytes, stages>>

Next ==
    \/ ParsePayload
    \/ DownloadEnter
    \/ StartFetch
    \/ StartFetchRejected
    \/ \E i \in DOMAIN tasks : SendFails(i)
    \/ \E i \in DOMAIN tasks : \E status \in Statuses : SendResponds(i, status)
    \/ \E i \in DOMAIN tasks : BytesFail(i)
    \/ \E i \in DOMAIN tasks : \E body \in Bodies : BytesArrive(i, body)
    \/ JoinAllReturns
    \/ AfterDownload
    \/ GridEnter
    \/ DecodeImages
    \/ AllocateCanvas
    \/ OverlayNext
    \/ ReturnGrid

Spec == Init /\ [][Next]_vars

(***************************************************************************)
(* Properties of Spec.                                                     *)
(***************************************************************************)

FailedTasks == { i \in DOMAIN tasks : tasks[i].st = "failed" }

\* the task that was the first to fail, in completion order
FirstFailed ==
    order[CHOOSE k \in DOMAIN order :
            /\ order[k] \in FailedTasks
            /\ \A j \in 1..(k - 1) : order[j] \notin FailedTasks]

LowestFailed == CHOOSE i \in FailedTasks : \A j \in FailedTasks : i <= j

Entered(stage) == \E k \in DOMAIN stages : stages[k] = stage

IsPrefix(s, t) == Len(s) <= Len(t) /\ \A k \in DOMAIN s : s[k] = t[k]

\* C4: on success download_images returns one buffer per URL, and buffer i
\* is the body fetched for URL i, whatever the order of completion.
C4_DownloadOrder ==
    downloaded.kind = "Ok" =>
        /\ Len(downloaded.bufs) = Len(urls)
        /\ \A i \in DOMAIN urls :
              /\ tasks[i].url = urls[i]
              /\ downloaded.bufs[i] = tasks[i].body

\* two different bodies arrived in the reverse of the URL order
C4_Witness ==
    /\ downloaded.kind = "Ok"
    /\ Len(order) >= 2
    /\ order[1] > order[2]
    /\ downloaded.bufs[order[1]] # downloaded.bufs[order[2]]

\* C5: a source answering with a non-success status while the others
\* succeed makes the request fail with DownloadError, and no canvas is
\* returned.
C5_BadStatusIsDownloadError ==
    ( /\ pc = "done"
      /\ Len(tasks) >= 2
      /\ \A i \in DOMAIN tasks : tasks[i].st = "ready"
      /\ \E i \in DOMAIN tasks :
            /\ tasks[i].status \notin 200..299
            /\ \A j \in DOMAIN tasks \ {i} : tasks[j].status \in 200..299 )
    => (result.kind = "Err" /\ result.type = "DownloadError")

\* C6: empty input is rejected with EmptyInput before any work is done.
C6_EmptyInput ==
    /\ (entry = "create_image_grid" /\ image_bytes = <<>> /\ pc = "done") =>
          /\ result = EmptyInput
          /\ stages = <<>>
          /\ images = <<>>
          /\ canvas = None
    /\ (Entered("download_images") /\ urls = <<>>) =>
          /\ downloaded = EmptyInput
          /\ tasks = <<>>
          /\ order = <<>>
          /\ ~Entered("decode")
          /\ canvas = None
          /\ pc = "done" => result = EmptyInput

\* a payload that is not empty and holds no URL was rejected by download_images
C6_Witness ==
    /\ payload # <<>>
    /\ DecodePayload(payload).bytes # <<>>
    /\ urls = <<>>
    /\ downloaded = EmptyInput
    /\ result = EmptyInput

\* C7, as claimed: the failure surfaced is the first one in completion order.
C7_FirstFailureInCompletionOrder ==
    (downloaded.kind = "Err" /\ downloaded.type = "DownloadError") =>
        downloaded.src = FirstFailed

\* C7, amended: when a fetch has failed download_images returns an error,
\* never a list of buffers, and the error is that of the failed source with
\* the lowest index.
C7_LowestIndexFailure ==
    (downloaded # None /\ FailedTasks # {}) =>
        downloaded = Err("DownloadError", LowestFailed, tasks[LowestFailed].detail)

\* two fetches failed, the one with the higher index first
C7_Witness ==
    /\ downloaded.kind = "Err"
    /\ Cardinality(FailedTasks) >= 2
    /\ FirstFailed # LowestFailed

\* the network has answered task i (a response, or a transport error)
Answered(i) ==
    \/ tasks[i].st \in {"reading", "ready"}
    \/ tasks[i].st = "failed" /\ tasks[i].detail # "builder"

\* C9: every fetch is started before the answer to any is looked at, and
\* download_images returns only after every fetch has completed.
C9_Barrier ==
    /\ \A i \in DOMAIN tasks :
          Answered(i) => \A j \in DOMAIN tasks : tasks[j].st # "created"
    /\ (downloaded # None /\ tasks # <<>>) =>
          \A j \in DOMAIN tasks : tasks[j].st \in {"ready", "failed"}

\* a fetch failed first, another one completed after it, and only then did
\* download_images return
C9_Witness ==
    /\ downloaded.kind = "Err"
    /\ Len(order) >= 2
    /\ order[1] \in FailedTasks
    /\ Answered(order[1])
    /\ tasks[order[Len(order)]].st = "ready"

StageOrder == <<"payload", "download_images", "decode", "composite">>

\* C10: process_base64_urls runs payload decoding, fetch, image decode and
\* composite in this order and stops at the first stage that fails, whose
\* error it returns unmodified.
C10_StagesShortCircuit ==
    entry = "process_base64_urls" =>
        /\ IsPrefix(stages, StageOrder)
        /\ Entered("decode") =>
              tasks # <<>> /\ \A i \in DOMAIN tasks : tasks[i].st = "ready"
        /\ canvas # None =>
              /\ Entered("decode")
              /\ \A i \in DOMAIN image_bytes : image_bytes[i].fmt # "junk"
        /\ pc = "done" =>
              LET decoded == DecodePayload(payload)
              IN  IF ~decoded.ok
                  THEN result = Err("Base64DecodeError", 0, "") /\ stages = <<"payload">>
                  ELSE IF ~Utf8Decode(decoded.bytes).ok
                  THEN result = Err("Utf8Error", 0, "") /\ stages = <<"payload">>
                  ELSE IF urls = <<>>
                  THEN result = EmptyInput /\ ~Entered("decode")
                  ELSE IF FailedTasks # {}
                  THEN /\ result.kind = "Err"
                       /\ result.type = "DownloadError"
                       /\ result = downloaded
                       /\ ~Entered("decode")
                  ELSE IF \E i \in DOMAIN tasks : tasks[i].body.fmt = "junk"
                  THEN /\ result.kind = "Err"
                       /\ result.type = "ImageDecodeError"
                       /\ tasks[result.src].body.fmt = "junk"
                       /\ ~Entered("composite")
                  ELSE result.kind = "Ok" /\ result.image = canvas

\* a fetch failed and another one delivered junk: the download error is
\* returned and nothing was decoded
C10_Witness ==
    /\ pc = "done"
    /\ result.kind = "Err"
    /\ result.type = "DownloadError"
    /\ \E i \in DOMAIN tasks : tasks[i].st = "ready" /\ tasks[i].body.fmt = "junk"

(***************************************************************************)
(* The returned canvas, pixel by pixel, for images whose grid fits 32 bits *)
(* with room to spare (every call of Spec): the layout the planner and the *)
(* offsets give, apart from the arithmetic at the limits of u32 that       *)
(* SpecPlan and SpecDims exercise.                                         *)
(***************************************************************************)

\* the canvas coordinates of pixel q of the i-th image (1-based) in its cell
CellPixel(i, q) ==
    LET cols == PolicyCols(Len(images))
    IN  <<((i - 1) % cols) * MaxWidth(images) + q[1],
          ((i - 1) \div cols) * MaxHeight(images) + q[2]>>

\* every opaque pixel of every image is in the returned canvas at its cell
SmallGridShowsEveryImage ==
    (pc = "done" /\ result.kind = "Ok") =>
        \A i \in DOMAIN images : \A q \in DOMAIN images[i].px :
            images[i].px[q][4] = 255 =>
                result.image.px[CellPixel(i, q)] = images[i].px[q]

\* every pixel of the returned canvas that no image covers is white
SmallGridPaddingIsWhite ==
    (pc = "done" /\ result.kind = "Ok") =>
        \A c \in DOMAIN result.image.px :
            (\A i \in DOMAIN images : \A q \in DOMAIN images[i].px :
                 CellPixel(i, q) = c => images[i].px[q][4] = 0)
            => result.image.px[c] = White

\* a call returned a canvas with more cells than images and a short tile
SmallGridReached ==
    /\ pc = "done"
    /\ result.kind = "Ok"
    /\ Len(images) = 5
    /\ \E i \in DOMAIN images : images[i].w < MaxWidth(images)

====
